---- MODULE Spec2Model ----
(***************************************************************************)
(* A model of the manual-reclamation concurrent hash map                   *)
(* (src/src/manual/mod.rs): Table, Map, MapHandle, the epoch registry and  *)
(* the reclamation barrier free_nodes.  The bucket list (module            *)
(* linked_list, not part of the sources at hand) is modelled from the      *)
(* specification, section 4.1: head-prepended nodes, logical deletion by   *)
(* the `active` flag, no splicing.                                         *)
(*                                                                         *)
(* Every action is one atomic access to shared memory (an atomic load,     *)
(* store, fetch_add or compare-and-swap, or a lock operation) together     *)
(* with the thread-local computation that follows it.                      *)
(***************************************************************************)
EXTENDS Integers, Sequences, FiniteSets, TLC

\* ---------------------------------------------------------------- bounds
\* Calls of insert/get/delete started in one behaviour.
MaxOps == 3
\* Handles in the registry (the initial one and its clones).
MaxHandles == 2

\* ------------------------------------------------------------- constants
\* Table::new(num_of_buckets); the tests build the map with 8 buckets.
nbuckets == 8
\* Width of the item counter in the model (usize in the code, scaled down).
UsizeMod == 2 ^ 16

Keys == {1, 4}
Values == {1, 4}
Null == 0
NoneV == 0
NodeIds == 1 .. (MaxOps + 1)

\* DefaultHasher (SipHash-1-3, zero keys) of the key written as 8
\* little-endian bytes, low 16 bits of finish().
HashLow(key) ==
  CASE key = 0 -> 40517
    [] key = 1 -> 11737
    [] key = 2 -> 47126
    [] key = 3 -> 40186
    [] key = 4 -> 26001
    [] OTHER   -> 32540

\* let index = hash % self.nbuckets
BucketMod(key) == HashLow(key) % nbuckets
BucketOf(key) == BucketMod(key)

VARIABLES
  handles,    \* Map.handles: the registry, handles[h] = epoch counter of handle h
  rwReaders,  \* handles that hold the registry's RwLock for reading
  head,       \* Table.map[b].head
  mem,        \* the heap of nodes
  nitems,     \* Table.nitems
  th,         \* per handle: position in the call and its locals
  done,       \* per handle: calls of insert/get/delete that have returned
  ops,        \* calls started so far
  npush,      \* per node: times it was pushed into a remove_nodes vector
  nfree,      \* per node: times it was passed to drop(Box::from_raw)
  ref,        \* history: the reference map, updated as each call starts
  wr,         \* history: per key, the write call (insert/delete) started last
  hx          \* history: per handle, what its current call is expected to return

hist == <<ref, wr, hx>>
vars == <<handles, rwReaders, head, mem, nitems, th, done, ops, npush, nfree,
          ref, wr, hx>>

Handles == 1 .. Len(handles)

\* A node: key, value, next, active as in the list; st is the state of its
\* memory; grace is history, the handles that were inside a critical
\* section when the node was deactivated and have not left it since.
NoNode == [key |-> 0, value |-> 0, next |-> Null, active |-> FALSE, st |-> "none",
           grace |-> {}]

IdleRec == [pc |-> "idle", op |-> "none", key |-> 0, val |-> 0, cur |-> Null,
            hd |-> Null, old |-> Null, oval |-> NoneV, ret |-> NoneV,
            acc |-> <<>>, started |-> <<>>, idx |-> 0]

NoWrite == [kind |-> "none", val |-> NoneV, by |-> 0, n |-> 0, solo |-> FALSE,
            peer |-> 0, pn |-> 0]
NoExpect == [exp |-> NoneV, wexp |-> NoneV]

\* Map::with_capacity: an empty table, one handle, its counter 0 in the registry.
Init ==
  /\ handles = <<0>>
  /\ rwReaders = {}
  /\ head = [b \in 0 .. (nbuckets - 1) |-> Null]
  /\ mem = [n \in NodeIds |-> NoNode]
  /\ nitems = 0
  /\ th = <<IdleRec>>
  /\ done = <<0>>
  /\ ops = 0
  /\ npush = [n \in NodeIds |-> 0]
  /\ nfree = [n \in NodeIds |-> 0]
  /\ ref = [k \in Keys |-> NoneV]
  /\ wr = [k \in Keys |-> NoWrite]
  /\ hx = <<NoExpect>>

Allocated == {n \in NodeIds : mem[n].st # "none"}

\* What a dereference of node n can observe while searching for key k.  A
\* live node yields its fields.  A freed node is a dangling pointer: the
\* read is undefined behaviour and may yield anything; the observations are
\* listed up to what the traversal uses of them (whether the node matches,
\* the value when it does, the next pointer when it does not).
Observe(n, k) ==
  IF mem[n].st = "live"
  THEN {[key |-> mem[n].key, value |-> mem[n].value,
         active |-> mem[n].active, next |-> mem[n].next]}
  ELSE {[key |-> k, value |-> v, active |-> TRUE, next |-> Null] : v \in Values}
       \cup {[key |-> k, value |-> NoneV, active |-> FALSE, next |-> x] :
               x \in Allocated \cup {Null}}

\* Where a traversal that ran off the end of the list goes: get and delete
\* return None, insert goes on to prepend with no old node.
Miss(r) ==
  IF r.op = "insert"
  THEN [r EXCEPT !.cur = Null, !.old = Null, !.pc = "cas"]
  ELSE [r EXCEPT !.cur = Null, !.hd = Null, !.ret = NoneV, !.pc = "exit"]

\* ---------------------------------------------------------------- history
\* Handles other than h that are inside an insert or a delete of key k.
Writers(h, k) ==
  {g \in Handles \ {h} : th[g].pc # "idle" /\ th[g].key = k
                           /\ th[g].op \in {"insert", "delete"}}

\* The call recorded in w has returned.
Returned(w) == w.by # 0 /\ done[w.by] > w.n

\* History kept as handle h starts call o(k, v).  ref is the reference map
\* (last writer wins, in the order the calls start) and hx[h].exp what it
\* returns for this call.  wr[k] records the write started last on k:
\* whether it started with no other write of k under way (solo), or as the
\* second of two overlapping inserts of k (peer).  hx[h].wexp is the value
\* a get must see after a solo insert of another handle has returned; a
\* write of the key that starts while the get runs withdraws it.
Track(h, o, k, v) ==
  LET others == Writers(h, k)
      w == wr[k]
      second == /\ o = "insert" /\ w.kind = "insert" /\ w.solo
                /\ others = {w.by} /\ ~Returned(w)
      seen == IF w.kind = "insert" /\ w.solo /\ Returned(w) /\ w.by # h
                 /\ others = {}
              THEN w.val ELSE NoneV
  IN /\ ref' = CASE o = "insert" -> [ref EXCEPT ![k] = v]
                 [] o = "delete" -> [ref EXCEPT ![k] = NoneV]
                 [] OTHER -> ref
     /\ wr' = IF o = "get" THEN wr
              ELSE [wr EXCEPT ![k] =
                      [kind |-> o, val |-> v, by |-> h, n |-> done[h],
                       solo |-> others = {},
                       peer |-> IF second THEN w.by ELSE 0,
                       pn |-> IF second THEN w.n ELSE 0]]
     /\ hx' = [g \in DOMAIN hx |->
                IF g = h
                THEN [exp |-> ref[k], wexp |-> IF o = "get" THEN seen ELSE NoneV]
                ELSE IF o # "get" /\ th[g].op = "get" /\ th[g].key = k
                     THEN [hx[g] EXCEPT !.wexp = NoneV]
                     ELSE hx[g]]

\* MapHandle::insert/get/delete, entry: fetch_add(1) on the own counter.
EnterCounterTwice(c) == c + 2
EnterCounter(c) == c + 1
Begin(h, o, k, v) ==
  /\ th[h].pc = "idle"
  /\ handles' = [handles EXCEPT ![h] = EnterCounter(@)]
  /\ th' = [th EXCEPT ![h] = [IdleRec EXCEPT !.pc = "load", !.op = o,
                                             !.key = k, !.val = v]]
  /\ ops' = ops + 1
  /\ UNCHANGED <<rwReaders, head, mem, nitems, done, npush, nfree>>

\* LinkedList: load the bucket's head and start the traversal.
LoadHead(h) ==
  /\ th[h].pc = "load"
  /\ LET c == head[BucketOf(th[h].key)]
         r == [th[h] EXCEPT !.cur = c, !.hd = c]
     IN th' = [th EXCEPT ![h] = IF c = Null THEN Miss(r)
                                ELSE [r EXCEPT !.pc = "visit"]]
  /\ UNCHANGED <<handles, rwReaders, head, mem, nitems, done, ops, npush, nfree>>
  /\ UNCHANGED hist

\* LinkedList: dereference the current node.
Visit(h) ==
  /\ th[h].pc = "visit"
  /\ \E o \in Observe(th[h].cur, th[h].key) :
       LET r == th[h]
           match == o.key = r.key /\ o.active
       IN th' = [th EXCEPT ![h] =
            IF match
            THEN CASE r.op = "get" ->
                        [r EXCEPT !.cur = Null, !.hd = Null, !.ret = o.value,
                                  !.pc = "exit"]
                   [] r.op = "insert" ->
                        [r EXCEPT !.cur = Null, !.old = r.cur, !.oval = o.value,
                                  !.pc = "cas"]
                   [] OTHER ->
                        [r EXCEPT !.cur = Null, !.hd = Null, !.old = r.cur,
                                  !.oval = o.value, !.pc = "deact"]
            ELSE IF o.next = Null THEN Miss(r)
                 ELSE [r EXCEPT !.cur = o.next]]
  /\ UNCHANGED <<handles, rwReaders, head, mem, nitems, done, ops, npush, nfree>>
  /\ UNCHANGED hist

FreshNode == CHOOSE n \in NodeIds : mem[n].st = "none" /\
                 \A m \in NodeIds : mem[m].st = "none" => n <= m

\* LinkedList::insert: allocate the new node and prepend it by a
\* compare-and-swap on head; on contention search again.
CasHead(h) ==
  /\ th[h].pc = "cas"
  /\ LET r == th[h]
         b == BucketOf(r.key)
         n == FreshNode
     IN IF head[b] = r.hd
        THEN /\ head' = [head EXCEPT ![b] = n]
             /\ mem' = [mem EXCEPT ![n] = [key |-> r.key, value |-> r.val,
                                           next |-> r.hd, active |-> TRUE,
                                           st |-> "live", grace |-> {}]]
             /\ th' = [th EXCEPT ![h] =
                         IF r.old # Null THEN [r EXCEPT !.hd = Null, !.pc = "deact"]
                         ELSE [r EXCEPT !.hd = Null, !.ret = NoneV, !.pc = "count"]]
        ELSE /\ th' = [th EXCEPT ![h] = [r EXCEPT !.pc = "load"]]
             /\ UNCHANGED <<head, mem>>
  /\ UNCHANGED <<handles, rwReaders, nitems, done, ops, npush, nfree>>
  /\ UNCHANGED hist

Inc2(c) == IF c < 2 THEN c + 1 ELSE 2

\* The handles other than h whose counter is odd.
OddNow(h) == {g \in Handles \ {h} : handles[g] % 2 = 1}

\* History: handle h leaves its critical section.
Left(m, h) == [n \in NodeIds |-> [m[n] EXCEPT !.grace = @ \ {h}]]

\* remove_nodes.push(node)
Push(r, n) == [r EXCEPT !.acc = Append(@, n), !.old = Null, !.oval = NoneV]

\* LinkedList::insert, replacement: store active = false in the old node and
\* push it.  LinkedList::delete: compare-and-swap active from true to false;
\* push the node and return its value on success, None when the race is lost.
\* On a freed node the store is lost and the compare-and-swap may go either way.
Deactivate(h) ==
  /\ th[h].pc = "deact"
  /\ LET r == th[h]
         n == r.old
         live == mem[n].st = "live"
         clear == [mem EXCEPT ![n].active = FALSE,
                              ![n].grace = IF mem[n].active THEN OddNow(h) ELSE @]
     IN IF r.op = "insert"
        THEN /\ mem' = IF live THEN clear ELSE mem
             /\ th' = [th EXCEPT ![h] = [Push(r, n) EXCEPT !.ret = r.oval,
                                                          !.pc = "exit"]]
             /\ npush' = [npush EXCEPT ![n] = Inc2(@)]
        ELSE \E won \in IF live THEN {mem[n].active} ELSE BOOLEAN :
               IF won
               THEN /\ mem' = IF live THEN clear ELSE mem
                    /\ th' = [th EXCEPT ![h] = [Push(r, n) EXCEPT !.ret = r.oval,
                                                                 !.pc = "count"]]
                    /\ npush' = [npush EXCEPT ![n] = Inc2(@)]
               ELSE /\ th' = [th EXCEPT ![h] = [r EXCEPT !.old = Null,
                                                         !.oval = NoneV,
                                                         !.ret = NoneV,
                                                         !.pc = "exit"]]
                    /\ UNCHANGED <<mem, npush>>
  /\ UNCHANGED <<handles, rwReaders, head, nitems, done, ops, nfree>>
  /\ UNCHANGED hist

\* Table::insert: nitems.fetch_add(1) when the list returned None;
\* Table::delete: nitems.fetch_sub(1) when the list returned Some.
Count(h) ==
  /\ th[h].pc = "count"
  /\ nitems' = IF th[h].op = "insert" THEN (nitems + 1) % UsizeMod
               ELSE (nitems + UsizeMod - 1) % UsizeMod
  /\ th' = [th EXCEPT ![h].pc = "exit"]
  /\ UNCHANGED <<handles, rwReaders, head, mem, done, ops, npush, nfree>>
  /\ UNCHANGED hist

\* MapHandle::insert/get/delete, exit: fetch_add(1) on the own counter, then
\* free_nodes when remove_nodes is not empty, else return.
ExitCounterStuck(c) == c
ExitCounter(c) == c + 1
\* if !remove_nodes.is_empty() { self.free_nodes(&remove_nodes); }
NeverFrees(acc) == FALSE
NeedsFree(acc) == acc # <<>>
Exit(h) ==
  /\ th[h].pc = "exit"
  /\ handles' = [handles EXCEPT ![h] = ExitCounter(@)]
  /\ IF NeedsFree(th[h].acc)
     THEN /\ th' = [th EXCEPT ![h].pc = "lock"]
          /\ UNCHANGED done
     ELSE /\ th' = [th EXCEPT ![h] = IdleRec]
          /\ done' = [done EXCEPT ![h] = @ + 1]
  /\ mem' = Left(mem, h)
  /\ UNCHANGED <<rwReaders, head, nitems, ops, npush, nfree>>
  /\ UNCHANGED hist

\* free_nodes: self.map.handles.read().  The write lock is never held
\* across steps, so the read lock is granted at once; whether a reader is
\* let in while a writer waits is left open by RwLock, and the model lets
\* it in.
Lock(h) ==
  /\ th[h].pc = "lock"
  /\ rwReaders' = rwReaders \cup {h}
  /\ th' = [th EXCEPT ![h].pc = "snap", ![h].started = <<>>]
  /\ UNCHANGED <<handles, head, mem, nitems, done, ops, npush, nfree>>
  /\ UNCHANGED hist

\* free_nodes: started.push(h.load(OSC)), one registry entry per step.
Snap(h) ==
  /\ th[h].pc = "snap"
  /\ LET s == Append(th[h].started, handles[Len(th[h].started) + 1])
     IN th' = [th EXCEPT ![h].started = s,
                         ![h].idx = IF Len(s) = Len(handles) THEN 1 ELSE 0,
                         ![h].pc = IF Len(s) = Len(handles) THEN "spin" ELSE "snap"]
  /\ UNCHANGED <<handles, rwReaders, head, mem, nitems, done, ops, npush, nfree>>
  /\ UNCHANGED hist

\* while (check <= started[i]) && (check % 2 == 1)
SpinningUntilAdvanced(check, start) == check <= start
SpinningWhileOdd(check, start) == check % 2 = 1
SpinningBelow(check, start) == check < start /\ check % 2 = 1
Spinning(check, start) == check <= start /\ check % 2 = 1

\* free_nodes: one load of entry idx; the scan moves on when the loop
\* condition is false and goes round again (no change of state) otherwise.
\* started[idx] is not read again once the scan has moved past idx, and
\* the record keeps 0 in its place.
Spin(h) ==
  /\ th[h].pc = "spin"
  /\ ~Spinning(handles[th[h].idx], th[h].started[th[h].idx])
  /\ th' = [th EXCEPT ![h].idx = @ + 1,
                      ![h].started[th[h].idx] = 0,
                      ![h].pc = IF th[h].idx = Len(handles) THEN "free" ELSE "spin"]
  /\ UNCHANGED <<handles, rwReaders, head, mem, nitems, done, ops, npush, nfree>>
  /\ UNCHANGED hist

\* drop(unsafe { Box::from_raw(*to_drop) }): the node's memory is released;
\* nothing unlinks it from its bucket.
DropNode(m, n) == [m EXCEPT ![n].st = "freed"]

\* free_nodes: free the next collected node; after the last one the read
\* guard is dropped and the call returns.
Free(h) ==
  /\ th[h].pc = "free"
  /\ LET n == Head(th[h].acc)
         rest == Tail(th[h].acc)
     IN /\ mem' = DropNode(mem, n)
        /\ nfree' = [nfree EXCEPT ![n] = Inc2(@)]
        /\ IF rest = <<>>
           THEN /\ th' = [th EXCEPT ![h] = IdleRec]
                /\ rwReaders' = rwReaders \ {h}
                /\ done' = [done EXCEPT ![h] = @ + 1]
           ELSE /\ th' = [th EXCEPT ![h].acc = rest]
                /\ UNCHANGED <<rwReaders, done>>
  /\ UNCHANGED <<handles, head, nitems, ops, npush>>
  /\ UNCHANGED hist

\* Clone for MapHandle, entry: the thread that owns handle h calls h.clone()
\* and asks for the registry's write lock.
CloneCall(h) ==
  /\ th[h].pc = "idle"
  /\ th' = [th EXCEPT ![h].pc = "clone"]
  /\ UNCHANGED <<handles, rwReaders, head, mem, nitems, done, ops, npush, nfree>>
  /\ UNCHANGED hist

\* The counters clone() calls are waiting to register.
Pending == Cardinality({h \in Handles : th[h].pc = "clone"})

\* handles_vec.push(Arc::clone(&ret.epoch_counter))
PushCounterFront(reg, c) == <<c>> \o reg
PushCounter(reg, c) == Append(reg, c)

\* RwLock::write: granted when no reader holds the lock.
WriteAnyway(readers) == TRUE
WriteGranted(readers) == readers = {}

\* Clone for MapHandle: handles.write() is granted when no barrier holds the
\* lock for reading; a fresh counter 0 is pushed and the lock released.
Clone(h) ==
  /\ th[h].pc = "clone"
  /\ WriteGranted(rwReaders)
  /\ handles' = PushCounter(handles, 0)
  /\ th' = Append([th EXCEPT ![h] = IdleRec], IdleRec)
  /\ done' = Append(done, 0)
  /\ hx' = Append(hx, NoExpect)
  /\ UNCHANGED <<rwReaders, head, mem, nitems, ops, npush, nfree, ref, wr>>

\* One step of some handle inside a call it has started.
Step ==
  \/ \E h \in Handles : LoadHead(h)
  \/ \E h \in Handles : Visit(h)
  \/ \E h \in Handles : CasHead(h)
  \/ \E h \in Handles : Deactivate(h)
  \/ \E h \in Handles : Count(h)
  \/ \E h \in Handles : Exit(h)
  \/ \E h \in Handles : Lock(h)
  \/ \E h \in Handles : Snap(h)
  \/ \E h \in Handles : Spin(h)
  \/ \E h \in Handles : Free(h)

\* Any client: up to MaxHandles handles issue up to MaxOps calls with any
\* arguments, in any order and with any overlap.
Insert == \E h \in Handles, k \in Keys, v \in Values :
            ops < MaxOps /\ Begin(h, "insert", k, v)
                         /\ Track(h, "insert", k, v)
Get == \E h \in Handles, k \in Keys :
         ops < MaxOps /\ Begin(h, "get", k, NoneV) /\ Track(h, "get", k, NoneV)
Delete == \E h \in Handles, k \in Keys :
            ops < MaxOps /\ Begin(h, "delete", k, NoneV)
                         /\ Track(h, "delete", k, NoneV)
CloneRequest == \E h \in Handles :
                  Len(handles) + Pending < MaxHandles /\ CloneCall(h)
CloneHandle == \E h \in Handles : Clone(h)

Next == Insert \/ Get \/ Delete \/ CloneRequest \/ CloneHandle \/ Step

Spec == Init /\ [][Next]_vars

\* A client that works on one key with one value, with no history kept,
\* through two handles: the first one and one clone of it.
OneKeyCall ==
  \E h \in Handles :
    /\ ops < MaxOps
    /\ \/ Begin(h, "insert", 1, 1)
       \/ Begin(h, "get", 1, NoneV)
       \/ Begin(h, "delete", 1, NoneV)
    /\ UNCHANGED hist
CloneOnce == \E h \in Handles : Len(handles) = 1 /\ Pending = 0 /\ CloneCall(h)
NextOneKey == OneKeyCall \/ CloneOnce \/ CloneHandle \/ Step
SpecOneKey == Init /\ [][NextOneKey]_vars

\* The same client under fair scheduling: a thread that can take a step of
\* its call eventually takes one.  A scan that goes round its loop again
\* does not change the state and is no step.
LiveHandles == {1, 2}
HStep(h) ==
  /\ h \in Handles
  /\ \/ LoadHead(h) \/ Visit(h) \/ CasHead(h) \/ Deactivate(h) \/ Count(h)
     \/ Exit(h) \/ Lock(h) \/ Snap(h) \/ Spin(h) \/ Free(h) \/ Clone(h)
NextLive == OneKeyCall \/ CloneOnce \/ CloneHandle \/ Step
SpecLive == Init /\ [][NextLive]_vars /\ \A h \in LiveHandles : WF_vars(HStep(h))

\* ------------------------------------------------------------ scripted clients
\* A client that issues the calls of a script in order (a call may start
\* before earlier ones have returned).
Scripted(script) ==
  \E h \in Handles :
    /\ ops < Len(script)
    /\ h = script[ops + 1][1]
    /\ Begin(h, script[ops + 1][2], script[ops + 1][3], script[ops + 1][4])
    /\ Track(h, script[ops + 1][2], script[ops + 1][3], script[ops + 1][4])

\* insert(1,1); then insert(1,4) by handle 1 and delete(1) by handle 2.
ReplaceVsDelete ==
  << <<1, "insert", 1, 1>>, <<1, "insert", 1, 4>>, <<2, "delete", 1, NoneV>> >>

\* Handle 1: insert(1,1); insert(4,4); delete(4); then insert(1,4) by
\* handle 1 and insert(1,1) by handle 2.  Keys 1 and 4 share a bucket.
TwoInserts ==
  << <<1, "insert", 1, 1>>, <<1, "insert", 4, 4>>, <<1, "delete", 4, NoneV>>,
     <<1, "insert", 1, 4>>, <<2, "insert", 1, 1>> >>
TwoInsertsCall == Scripted(TwoInserts)
NextTwoInserts == TwoInsertsCall \/ CloneRequest \/ CloneHandle \/ Step
SpecTwoInserts == Init /\ [][NextTwoInserts]_vars

\* Handle 1: insert(1,1); insert(4,4); delete(4); then get(1) by handle 2.
GetAfterInsert ==
  << <<1, "insert", 1, 1>>, <<1, "insert", 4, 4>>, <<1, "delete", 4, NoneV>>,
     <<2, "get", 1, NoneV>> >>
GetAfterInsertCall == Scripted(GetAfterInsert)
NextGetAfterInsert == GetAfterInsertCall \/ CloneRequest \/ CloneHandle \/ Step
SpecGetAfterInsert == Init /\ [][NextGetAfterInsert]_vars

\* Handle 1: insert(1,1); delete(1), whose barrier meets get(1) of
\* handle 2; meanwhile further handles are cloned, two more than MaxHandles.
BarrierVsGet ==
  << <<1, "insert", 1, 1>>, <<1, "delete", 1, NoneV>>, <<2, "get", 1, NoneV>> >>
BarrierVsGetCall == Scripted(BarrierVsGet)
CloneMore == \E h \in Handles :
               Len(handles) + Pending < MaxHandles + 2 /\ CloneCall(h)
NextClone == BarrierVsGetCall \/ CloneMore \/ CloneHandle \/ Step
SpecClone == Init /\ [][NextClone]_vars

ReplaceVsDeleteCall == Scripted(ReplaceVsDelete)
NextReplaceVsDelete == ReplaceVsDeleteCall \/ CloneRequest \/ CloneHandle \/ Step
SpecReplaceVsDelete == Init /\ [][NextReplaceVsDelete]_vars

\* ------------------------------------------------------------------ claims
InCritical(h) == th[h].pc \in {"load", "visit", "cas", "deact", "count", "exit"}
InBarrier(h) == th[h].pc \in {"lock", "snap", "spin", "free"}
Idle(h) == th[h].pc = "idle"
AllIdle == \A h \in Handles : Idle(h)

\* C1 (as claimed): a node that a handle in a critical section is about to
\* dereference (the node its traversal stands on, or the old node it is
\* about to deactivate) has not been freed.
C1_NoUseAfterFree ==
  \A h \in Handles :
    /\ th[h].pc = "visit" => mem[th[h].cur].st # "freed"
    /\ th[h].pc = "deact" => mem[th[h].old].st # "freed"

\* C2 (as claimed): every node is pushed into at most one remove_nodes
\* vector and freed at most once.
C2_NoDoubleFree == \A n \in NodeIds : npush[n] <= 1 /\ nfree[n] <= 1

\* The (key, value) pairs that insert calls have supplied so far: those of
\* the nodes allocated and those of the inserts under way.
Supplied ==
  {<<mem[n].key, mem[n].value>> : n \in Allocated}
    \cup {<<th[h].key, th[h].val>> : h \in {g \in Handles : th[g].op = "insert"}}

\* C3 (as claimed): a get(k) about to return Some(v) returns a value that
\* an insert(k, v) supplied.
C3_ValueIntegrity ==
  \A h \in Handles :
    (th[h].op = "get" /\ th[h].pc = "exit" /\ th[h].ret # NoneV)
      => <<th[h].key, th[h].ret>> \in Supplied

\* The nodes on the list that starts at node n (following next as stored).
RECURSIVE Chain(_)
Chain(n) == IF n = Null THEN {} ELSE {n} \cup Chain(mem[n].next)

\* The nodes with key k and active = true reachable from the bucket head.
ActiveNodes(k) ==
  {n \in Chain(head[BucketOf(k)]) :
     mem[n].st = "live" /\ mem[n].key = k /\ mem[n].active}

\* C4 (as claimed): when the two writes of key k started last are inserts
\* by two handles, the second started while the first was under way and
\* no other write of k overlapped them, then once both have returned
\* exactly one active node with key k is reachable from the bucket head.
C4_OneActiveAfterRace ==
  \A k \in Keys :
    (wr[k].peer # 0 /\ Returned(wr[k]) /\ done[wr[k].peer] > wr[k].pn)
      => Cardinality(ActiveNodes(k)) = 1

\* Only handle h has issued calls so far.
Alone(h) == \A g \in Handles \ {h} : Idle(g) /\ done[g] = 0

\* C8 (as claimed): a call of the only handle in use is about to return
\* what the reference map returns for it.
C8_SingleHandleReturns ==
  \A h \in Handles :
    (Alone(h) /\ th[h].pc = "exit") => th[h].ret = hx[h].exp

\* C9 (as claimed): between the calls of the only handle in use, nitems
\* is the number of keys bound in the reference map.
C9_SingleHandleCount ==
  \A h \in Handles :
    (Alone(h) /\ Idle(h)) => nitems = Cardinality({k \in Keys : ref[k] # NoneV})

\* C10 (as claimed): a get(k) that started after an insert(k, v) of another
\* handle had returned, with no write of k under way then or started
\* since, is about to return Some(v).
C10_CrossHandleVisibility ==
  \A h \in Handles :
    (th[h].op = "get" /\ th[h].pc = "exit" /\ hx[h].wexp # NoneV)
      => th[h].ret = hx[h].wexp

\* C5: a handle between calls has an epoch counter of twice the calls it
\* has completed; inside a call the counter is one more up to the exit
\* increment and two more from there to the return.
C5_EpochParity ==
  \A h \in Handles :
    handles[h] = 2 * done[h]
                 + (IF InCritical(h) THEN 1
                    ELSE IF InBarrier(h) THEN 2 ELSE 0)

\* C5 witness: with two handles in the registry, a handle is idle after two
\* completed calls, one of which ran the barrier and freed a node.
C5_Witness ==
  /\ Len(handles) = 2
  /\ \E h \in Handles : Idle(h) /\ done[h] = 2 /\ handles[h] = 4
  /\ \E n \in NodeIds : nfree[n] = 1

\* C6: if every handle keeps leaving its critical sections, every barrier
\* that a handle is running comes to its end (the handle frees its nodes
\* and is idle again).
C6_BarrierProgress ==
  (\A h \in LiveHandles : []<>~(h \in Handles /\ InCritical(h)))
    => \A h \in LiveHandles : (h \in Handles /\ InBarrier(h)) ~> (h \in Handles /\ Idle(h))

\* C6 witness: a barrier is held up at a peer that is inside a critical
\* section it had entered before the snapshot.
C6_Witness ==
  \E h \in Handles :
    /\ th[h].pc = "spin"
    /\ th[h].idx # h
    /\ Spinning(handles[th[h].idx], th[h].started[th[h].idx])
    /\ InCritical(th[h].idx)

\* C7: a node that was collected and is not freed yet is in the
\* remove_nodes vector of a handle that is still inside its call; so when
\* all handles are idle every collected node has been freed.
C7_EventualReclamation ==
  /\ \A n \in NodeIds :
       (npush[n] > 0 /\ mem[n].st # "freed")
         => \E h \in Handles :
              ~Idle(h) /\ \E i \in 1 .. Len(th[h].acc) : th[h].acc[i] = n
  /\ AllIdle => \A n \in NodeIds : npush[n] > 0 => mem[n].st = "freed"

\* C7 witness: all handles are idle and a collected node has been freed.
C7_Witness ==
  /\ AllIdle
  /\ \E n \in NodeIds : npush[n] > 0 /\ mem[n].st = "freed"

\* No handle is inside a call of insert, get or delete.
Quiescent == \A h \in Handles : ~InCritical(h) /\ ~InBarrier(h)

\* The active nodes reachable from the bucket heads, over all keys.
LiveKeys == UNION {ActiveNodes(k) : k \in Keys}

\* C11 (as claimed): whenever no handle is inside a call, nitems is the
\* number of active nodes reachable from the bucket heads.
C11_QuiescentCount == Quiescent => nitems = Cardinality(LiveKeys)

\* C12 (as claimed): in every state, for every key, at most one node with
\* that key and active = true is reachable from its bucket head.
C12_AtMostOneActive == \A k \in Keys : Cardinality(ActiveNodes(k)) <= 1

\* C13: a handle inside the barrier (from the request of the registry's read
\* lock to the last free) has an even epoch counter, and a barrier held up
\* at a registry entry is never held up by a handle that is itself inside
\* the barrier.
C13_BarrierWhileEven ==
  \A h \in Handles :
    /\ InBarrier(h) => handles[h] % 2 = 0
    /\ (th[h].pc = "spin"
          /\ Spinning(handles[th[h].idx], th[h].started[th[h].idx]))
         => ~InBarrier(th[h].idx)

\* C13 witness: a barrier's scan stands at the entry of another handle that
\* is inside the barrier too.
C13_Witness ==
  \E h \in Handles :
    /\ th[h].pc = "spin"
    /\ th[h].idx # h
    /\ InBarrier(th[h].idx)

\* The barrier of handle h is held up at the registry entry it stands on.
HeldUp(h) ==
  th[h].pc = "spin" /\ Spinning(handles[th[h].idx], th[h].started[th[h].idx])

\* C14: a barrier is held up at entry i exactly while the counter of i is
\* odd and not greater than started[i], and it can move past i as soon as
\* the counter is even or greater than started[i]; an entry whose counter
\* was even at the snapshot never holds the barrier up.
C14_SpinPredicate ==
  \A h \in Handles :
    th[h].pc = "spin" =>
      LET check == handles[th[h].idx]
          start == th[h].started[th[h].idx]
      IN /\ HeldUp(h) <=> (check % 2 = 1 /\ ~(check > start))
         /\ (check % 2 = 0 \/ check > start) <=> ENABLED Spin(h)
         /\ start % 2 = 0 => ~HeldUp(h)

\* C14 witness: the scan stands at the entry of another handle whose
\* counter was even at the snapshot and which has entered a call since.
C14_Witness ==
  \E h \in Handles :
    /\ th[h].pc = "spin"
    /\ th[h].idx # h
    /\ th[h].started[th[h].idx] % 2 = 0
    /\ handles[th[h].idx] % 2 = 1
    /\ InCritical(th[h].idx)

\* C15: when a handle is about to free the nodes it collected, no handle
\* is still inside a critical section that it was in when one of these
\* nodes was deactivated.
C15_GracePeriod ==
  \A h \in Handles :
    th[h].pc = "free" =>
      \A i \in 1 .. Len(th[h].acc) : mem[th[h].acc[i]].grace = {}

\* C15 witness: a barrier is held up by a handle that was inside its
\* critical section when a node the barrier is to free was deactivated.
C15_Witness ==
  \E h \in Handles :
    /\ HeldUp(h)
    /\ th[h].idx \in mem[Head(th[h].acc)].grace

\* The nodes reachable from some bucket head by following next.
Linked == UNION {Chain(head[b]) : b \in 0 .. (nbuckets - 1)}

\* C16 (as claimed): a node that free_nodes has freed is not reachable from
\* any bucket head.
C16_FreedIsUnlinked == \A n \in NodeIds : mem[n].st = "freed" => n \notin Linked

\* A step leaves every counter as it is or raises it; a step that raises
\* the counter of handle h is the entry or the exit of a call of h and
\* changes nothing of another handle.
OwnCounterOnly ==
  \A h \in Handles :
    /\ handles'[h] >= handles[h]
    /\ handles'[h] # handles[h] =>
         /\ th[h].pc \in {"idle", "exit"}
         /\ th'[h].pc # th[h].pc
         /\ \A g \in Handles \ {h} : handles'[g] = handles[g] /\ th'[g] = th[g]

\* C17: a handle's epoch counter is odd exactly while the handle is
\* between the entry increment and the exit increment of a call, and even
\* otherwise (between calls, waiting to clone, or inside the barrier); the
\* counter never decreases and only the handle's own calls change it.
C17_EpochDiscipline ==
  /\ [](\A h \in Handles : handles[h] % 2 = 1 <=> InCritical(h))
  /\ [][OwnCounterOnly]_vars

\* C17 witness: a handle is inside its second critical section (counter 3)
\* while another handle is inside the barrier with an even counter.
C17_Witness ==
  \E h, g \in Handles :
    /\ InCritical(h) /\ handles[h] = 3
    /\ InBarrier(g) /\ handles[g] % 2 = 0 /\ handles[g] > 0

\* A step that changes the registry is a clone: it appends one counter 0
\* and leaves the entries there, the table and nitems as they are.
RegistryGrowsByClone ==
  handles' # handles =>
    \/ handles' = Append(handles, 0) /\ UNCHANGED <<head, mem, nitems>>
    \/ Len(handles') = Len(handles)

\* C18: the registry has one counter per handle (the first handle and one
\* for every clone made), a clone appends one counter 0 and changes no
\* other entry, no bucket, no node and not nitems, and no step removes or
\* reorders an entry.
C18_CloneFrame ==
  /\ [](Len(handles) = Len(th))
  /\ [][RegistryGrowsByClone]_vars
  /\ [][Len(th') # Len(th) => Len(th') = Len(th) + 1 /\ handles' = Append(handles, 0)]_vars

\* C18 witness: the registry holds three counters, the last one still 0,
\* next to counters that calls have raised and a table that holds a node.
C18_Witness ==
  /\ Len(handles) = 3
  /\ handles[3] = 0
  /\ handles[1] > 0 /\ handles[2] > 0
  /\ Allocated # {}

\* The barrier of a handle holds the read lock from its snapshot to its
\* last free, and its scan stands on an entry it has snapshotted.
ReadView ==
  /\ \A h \in Handles : h \in rwReaders <=> th[h].pc \in {"snap", "spin", "free"}
  /\ \A h \in Handles :
       /\ th[h].pc = "snap" => Len(th[h].started) < Len(handles)
       /\ th[h].pc = "spin" => /\ Len(th[h].started) = Len(handles)
                               /\ th[h].idx \in 1 .. Len(th[h].started)

\* A step that handle h can take when a reader is not let in while a
\* writer waits.
StrictStep(h) ==
  \/ LoadHead(h) \/ Visit(h) \/ CasHead(h) \/ Deactivate(h) \/ Count(h)
  \/ Exit(h) \/ Snap(h) \/ Spin(h) \/ Free(h) \/ Clone(h)
  \/ (Pending = 0 /\ Lock(h))

\* C19: a barrier holds the registry's read lock from before its snapshot
\* until after its last free and scans exactly the entries it snapshotted;
\* the registry does not change while a barrier holds the lock, so a clone
\* asked for during a barrier registers its counter only after the
\* barrier; and whenever a handle is inside a call or a clone, some handle
\* can take a step, also when waiting writers keep new readers out.
C19_RegistryLock ==
  /\ []ReadView
  /\ [][rwReaders # {} => handles' = handles \/ Len(handles') = Len(handles)]_vars
  /\ []((\E h \in Handles : ~Idle(h)) => \E h \in Handles : ENABLED StrictStep(h))

\* C19 witness: a clone is waiting for the write lock while a barrier
\* holds the read lock and is held up at a handle inside a call.
C19_Witness ==
  \E h, g \in Handles :
    /\ th[h].pc = "clone"
    /\ g \in rwReaders
    /\ HeldUp(g)

\* C20 (as claimed): nitems never wraps: it is at most the number of nodes
\* that inserts have allocated.
C20_NoUnderflow == nitems <= Cardinality(Allocated)

====
